---- MODULE Spec2Model ----
(***************************************************************************)
(* AURA400: the QuantumEmotionalCore of aura_live.py (evaluator, metrics   *)
(* aggregator, emotional state) and the Flask routes that drive it.        *)
(*                                                                         *)
(* Real numbers are exact here.  A vector entry is an integer count of     *)
(* thousandths (ONE stands for 1.0); a metric that the code computes by a  *)
(* division is a reduced fraction [n, d], so the rounding of the floating  *)
(* point arithmetic is outside the model.                                  *)
(***************************************************************************)
EXTENDS Integers, Sequences, FiniteSets, TLC

VARIABLES quantum_core, last_op, request, response, history, cli, threads, aura, dashboard

web == <<quantum_core, last_op, request, response, history>>

vars == <<web, cli, threads, aura, dashboard>>

--------------------------------------------------------------------------
(* Program constants.  ONE is the 1.0 that /api/feel writes, in thousandths; *)
(* NOISE_DIVISOR is the 0.1 that scales the noise.                        *)

N_EMOTIONS == 8
ONE == 1000
NOISE_DIVISOR == 10
EMOTIONS == <<"joy", "fear", "anger", "sadness", "surprise", "disgust", "trust", "anticipation">>

(* Bounds of the model *)

MaxCycles == 3
ScenarioCycles == 10
MaxSession == 2

Null == -1

--------------------------------------------------------------------------
(* Exact arithmetic *)

RECURSIVE GCD(_, _)
GCD(a, b) == IF b = 0 THEN a ELSE GCD(b, a % b)

Rat(n, d) == LET g == GCD(n, d) IN [n |-> n \div g, d |-> d \div g]

Idx == 1..N_EMOTIONS

RECURSIVE SumTo(_, _)
SumTo(v, k) == IF k = 0 THEN 0 ELSE v[k] + SumTo(v, k - 1)

Sum(v) == SumTo(v, N_EMOTIONS)

Zeros == [i \in Idx |-> 0]

(* np.zeros(8) held as a vector of fractions over a common denominator *)
ZeroState == [w |-> Zeros, total |-> 1]

--------------------------------------------------------------------------
(* Inputs drawn from the environment *)

(* samples of rng.random(): values of [0, 1), in thousandths *)
RandomValues == {0, 490}

(* rng.random(8) of the constructor *)
RandomVectors == {[i \in Idx |-> IF i = 1 THEN a ELSE 0] : a \in RandomValues}

(* rng.random(8) of update_emotional_state, before its scaling by 0.1 *)
NoiseVectors == {[i \in Idx |-> a] : a \in RandomValues}

(* rng.dirichlet(np.ones(8)): strictly positive entries that sum to 1 *)
DirichletDraws ==
    {[w |-> [i \in Idx |-> g[i] + 1], total |-> Sum(g) + N_EMOTIONS] : g \in RandomVectors}

(* the intensity an evaluation computes, from the clock or the state vector *)
Intensities == {0, 1}

(* the phase coherence and the entanglement measure an evaluation computes *)
(* with its intensity, in thousandths: one sample of each                  *)
Coherences == {ONE}
Entanglements == {300}

(* time.time() - start_time: one duration stands for all of them *)
ElapsedTimes == {0}

(* str(uuid.uuid4())[:8] *)
SessionIds == 1..MaxSession

BackendOutcomes == {"ok", "import_error", "backend_error", "build_error"}

(* What one evaluation reads from its surroundings: whether it raises, the *)
(* intensity it computes and the random draws it makes.  An evaluation     *)
(* raises before it has written anything (the Qiskit calls of lines        *)
(* 227-235 come first), so it draws nothing; the Dirichlet draw is made    *)
(* only where the vector and the noise are all 0.                          *)
NoDraw ==
    [raises |-> TRUE, intensity |-> 0, coherence |-> 0, entanglement |-> 0,
     noise |-> Zeros, dirichlet |-> ZeroState]

DirichletFor(vector, noise) ==
    IF vector = Zeros /\ noise = Zeros THEN DirichletDraws ELSE {ZeroState}

Envs(vector, intensities, noises) ==
    {NoDraw}
    \cup
    UNION {{[raises |-> FALSE, intensity |-> x, coherence |-> p, entanglement |-> e,
              noise |-> n, dirichlet |-> d] :
               x \in intensities, p \in Coherences, e \in Entanglements,
               d \in DirichletFor(vector, n)} : n \in noises}

--------------------------------------------------------------------------
(* QuantumEmotionalCore.  computed_by names the evaluator that last wrote   *)
(* the three statistics; start_time, the sensor feedback and the circuit   *)
(* are written once by the constructor and read by no operation here.      *)

InitialMetrics ==
    [executions |-> 0, errors |-> 0, avg_intensity |-> Rat(0, 1),
     last_execution_time |-> Null, success_rate |-> Rat(100, 1)]

initialize_quantum_backend(outcome) ==
    CASE outcome = "ok" ->
           [backend_type |-> "QISKIT_AER_SIMULATOR", qiskit_available |-> TRUE]
      [] outcome = "build_error" ->
           [backend_type |-> "QISKIT_AER_SIMULATOR", qiskit_available |-> FALSE]
      [] OTHER ->
           [backend_type |-> "CLASSICAL_QUANTUM_SIMULATION", qiskit_available |-> FALSE]

__init__(vector, session, outcome) ==
    LET b == initialize_quantum_backend(outcome)
    IN  [emotion_state |-> ZeroState,
         quantum_intensity |-> 0,
         phase_coherence |-> 0,
         entanglement_measure |-> 0,
         computed_by |-> "none",
         emotional_vector |-> vector,
         session_id |-> session,
         metrics |-> InitialMetrics,
         backend_type |-> b.backend_type,
         qiskit_available |-> b.qiskit_available]

Normalize(base_state) == [w |-> base_state, total |-> Sum(base_state)]

(* an update that keeps the noisy vector as the new emotional vector *)
update_emotional_state_accumulates(c, env) ==
    LET noise == [i \in Idx |-> env.noise[i] \div NOISE_DIVISOR]
        base_state == [i \in Idx |-> c.emotional_vector[i] + noise[i]]
    IN  IF Sum(base_state) > 0
        THEN [c EXCEPT !.emotion_state = Normalize(base_state), !.emotional_vector = base_state]
        ELSE [c EXCEPT !.emotion_state = env.dirichlet]

update_emotional_state(c, env) ==
    LET noise == [i \in Idx |-> env.noise[i] \div NOISE_DIVISOR]
        base_state == [i \in Idx |-> c.emotional_vector[i] + noise[i]]
    IN  IF Sum(base_state) > 0
        THEN [c EXCEPT !.emotion_state = Normalize(base_state)]
        ELSE [c EXCEPT !.emotion_state = env.dirichlet]

(* the running mean both evaluators end with *)
UpdateAvgIntensity(c) ==
    LET m == c.metrics
    IN  IF m.executions > 0
        THEN [c EXCEPT !.metrics.avg_intensity =
                 Rat(m.avg_intensity.n * (m.executions - 1) + c.quantum_intensity * m.avg_intensity.d,
                     m.avg_intensity.d * m.executions)]
        ELSE [c EXCEPT !.metrics.avg_intensity = Rat(c.quantum_intensity, 1)]

Returned(c, v) == [core |-> c, raised |-> FALSE, value |-> v]
Raised(c) == [core |-> c, raised |-> TRUE, value |-> FALSE]

classical_quantum_simulation(c, env) ==
    LET c1 == [c EXCEPT !.quantum_intensity = env.intensity,
                        !.phase_coherence = env.coherence,
                        !.entanglement_measure = env.entanglement,
                        !.computed_by = "classical"]
        c2 == update_emotional_state(c1, env)
        c3 == UpdateAvgIntensity(c2)
    IN  IF env.raises THEN Raised(c) ELSE Returned(c3, TRUE)

_process_quantum_results(c, env) ==
    LET c1 == [c EXCEPT !.quantum_intensity = env.intensity,
                        !.phase_coherence = env.coherence,
                        !.entanglement_measure = env.entanglement,
                        !.computed_by = "quantum"]
        c2 == update_emotional_state(c1, env)
        c3 == UpdateAvgIntensity(c2)
    IN  IF env.raises THEN Raised(c) ELSE Returned(c3, TRUE)

(* a simulation that, once it has failed, switches the core to fallback mode *)
real_quantum_simulation_givesUp(c, env) ==
    LET r == _process_quantum_results(c, env)
    IN  IF r.raised THEN Returned([r.core EXCEPT !.qiskit_available = FALSE], FALSE)
        ELSE Returned(r.core, TRUE)

real_quantum_simulation(c, env) ==
    LET r == _process_quantum_results(c, env)
    IN  IF r.raised THEN Returned(r.core, FALSE) ELSE Returned(r.core, TRUE)

(* a success rate that rounds the quotient down before scaling it *)
SuccessRate_floored(m) == Rat(((m.executions - m.errors) \div m.executions) * 100, 1)

(* lines 208-211 *)
SuccessRate(m) == Rat((m.executions - m.errors) * 100, m.executions)

Max(a, b) == IF a >= b THEN a ELSE b

(* lines 218-221 *)
SuccessRateGuarded(m) == Rat((m.executions - m.errors) * 100, Max(1, m.executions))

(* an exception path that counts the error but not the execution *)
execute_cycle_errorOnly(c, env1, env2, elapsed) ==
    LET r == IF c.qiskit_available
             THEN real_quantum_simulation(c, env1)
             ELSE classical_quantum_simulation(c, env1)
    IN  IF ~r.raised
        THEN LET m1 == [r.core.metrics EXCEPT !.last_execution_time = elapsed,
                                               !.executions = @ + 1]
                 m2 == IF r.value THEN [m1 EXCEPT !.success_rate = SuccessRate(m1)] ELSE m1
             IN  Returned([r.core EXCEPT !.metrics = m2], r.value)
        ELSE LET m1 == [r.core.metrics EXCEPT !.errors = @ + 1]
                 m2 == [m1 EXCEPT !.success_rate = SuccessRateGuarded(m1)]
             IN  classical_quantum_simulation([r.core EXCEPT !.metrics = m2], env2)

(* a cycle that counts the execution only where the evaluation succeeded *)
execute_cycle_countsSuccesses(c, env1, env2, elapsed) ==
    LET r == IF c.qiskit_available
             THEN real_quantum_simulation(c, env1)
             ELSE classical_quantum_simulation(c, env1)
    IN  IF ~r.raised
        THEN LET m1 == [r.core.metrics EXCEPT !.last_execution_time = elapsed]
                 m2 == IF r.value
                       THEN [m1 EXCEPT !.executions = @ + 1,
                                       !.success_rate = SuccessRate([m1 EXCEPT !.executions = @ + 1])]
                       ELSE m1
             IN  Returned([r.core EXCEPT !.metrics = m2], r.value)
        ELSE LET m1 == [r.core.metrics EXCEPT !.errors = @ + 1, !.executions = @ + 1]
                 m2 == [m1 EXCEPT !.success_rate = SuccessRateGuarded(m1)]
             IN  classical_quantum_simulation([r.core EXCEPT !.metrics = m2], env2)

(* an exception path that retries without counting the error *)
execute_cycle_errorUncounted(c, env1, env2, elapsed) ==
    LET r == IF c.qiskit_available
             THEN real_quantum_simulation(c, env1)
             ELSE classical_quantum_simulation(c, env1)
    IN  IF ~r.raised
        THEN LET m1 == [r.core.metrics EXCEPT !.last_execution_time = elapsed,
                                               !.executions = @ + 1]
                 m2 == IF r.value THEN [m1 EXCEPT !.success_rate = SuccessRate(m1)] ELSE m1
             IN  Returned([r.core EXCEPT !.metrics = m2], r.value)
        ELSE LET m1 == [r.core.metrics EXCEPT !.executions = @ + 1]
                 m2 == [m1 EXCEPT !.success_rate = SuccessRateGuarded(m1)]
             IN  classical_quantum_simulation([r.core EXCEPT !.metrics = m2], env2)

execute_quantum_emotion_cycle(c, env1, env2, elapsed) ==
    LET r == IF c.qiskit_available
             THEN real_quantum_simulation(c, env1)
             ELSE classical_quantum_simulation(c, env1)
    IN  IF ~r.raised
        THEN LET m1 == [r.core.metrics EXCEPT !.last_execution_time = elapsed,
                                               !.executions = @ + 1]
                 m2 == IF r.value THEN [m1 EXCEPT !.success_rate = SuccessRate(m1)] ELSE m1
             IN  Returned([r.core EXCEPT !.metrics = m2], r.value)
        ELSE LET m1 == [r.core.metrics EXCEPT !.errors = @ + 1, !.executions = @ + 1]
                 m2 == [m1 EXCEPT !.success_rate = SuccessRateGuarded(m1)]
             IN  classical_quantum_simulation([r.core EXCEPT !.metrics = m2], env2)

(* a reset that starts a new session but keeps the counters *)
reset_keepsMetrics(c, vector, session, outcome) ==
    [__init__(vector, session, outcome) EXCEPT !.metrics = c.metrics]

reset(c, vector, session, outcome) == __init__(vector, session, outcome)

get_metrics(c) ==
    [executions |-> c.metrics.executions,
     errors |-> c.metrics.errors,
     avg_intensity |-> c.metrics.avg_intensity,
     last_execution_time |-> c.metrics.last_execution_time,
     success_rate |-> c.metrics.success_rate,
     quantum_intensity |-> c.quantum_intensity,
     phase_coherence |-> c.phase_coherence,
     entanglement_measure |-> c.entanglement_measure,
     session_id |-> c.session_id,
     backend |-> c.backend_type,
     state |-> c.emotion_state]

--------------------------------------------------------------------------
(* What has run since the core was constructed or reset: the number of     *)
(* cycles, which of them raised in their classical evaluation, how many    *)
(* had their simulation fail, the sum of the intensities the cycles ended  *)
(* with, how the latest cycle went and, until the next cycle, the counters *)
(* that the reset discarded.                                               *)

NoHistory ==
    [cycles |-> 0, raised_at |-> {}, sim_failed |-> 0, sum_intensity |-> 0,
     last_eval |-> "none", last_return |-> "none",
     discarded |-> [executions |-> 0, errors |-> 0]]

(* c is the core the cycle started from, env1 what its first evaluation    *)
(* met, r what execute_quantum_emotion_cycle came back with                *)
Record(h, c, env1, r) ==
    [cycles |-> h.cycles + 1,
     raised_at |-> IF env1.raises /\ ~c.qiskit_available
                   THEN h.raised_at \cup {h.cycles + 1} ELSE h.raised_at,
     sim_failed |-> IF env1.raises /\ c.qiskit_available THEN h.sim_failed + 1 ELSE h.sim_failed,
     sum_intensity |-> h.sum_intensity + r.core.quantum_intensity,
     last_eval |-> IF ~env1.raises THEN "ok"
                   ELSE IF c.qiskit_available THEN "sim_failed" ELSE "raised",
     last_return |-> IF r.raised THEN "raised" ELSE IF r.value THEN "True" ELSE "False",
     discarded |-> NoHistory.discarded]

--------------------------------------------------------------------------
(* The routes *)

NoRequest == "<none>"

(* the second evaluation is the retry of the exception path: it runs only *)
(* in fallback mode and only after the first evaluation raised            *)
CycleEnvs(c, intensities, noises) ==
    LET all == Envs(c.emotional_vector, intensities, noises)
        ok == {e \in all : ~e.raises}
    IN  IF c.qiskit_available
        THEN all \X {NoDraw}
        ELSE (ok \X {NoDraw}) \cup ((all \ ok) \X all)

api_metrics(cap, intensities, noises) ==
    /\ quantum_core.metrics.executions < cap
    /\ \E envs \in CycleEnvs(quantum_core, intensities, noises), elapsed \in ElapsedTimes :
         LET r == execute_quantum_emotion_cycle(quantum_core, envs[1], envs[2], elapsed)
         IN  /\ quantum_core' = r.core
             /\ response' = IF r.raised THEN [status |-> 500]
                            ELSE [status |-> 200, body |-> get_metrics(r.core)]
             /\ history' = Record(history, quantum_core, envs[1], r)
    /\ last_op' = "api_metrics"
    /\ request' = NoRequest

api_reset ==
    /\ \E v \in RandomVectors, s \in SessionIds, o \in BackendOutcomes :
         /\ quantum_core' = reset(quantum_core, v, s, o)
         /\ response' = [status |-> 200, session |-> s]
    /\ history' = [NoHistory EXCEPT !.discarded = [executions |-> quantum_core.metrics.executions,
                                                   errors |-> quantum_core.metrics.errors]]
    /\ last_op' = "api_reset"
    /\ request' = NoRequest

(* a GET /metrics that stamps the core with the time of the query *)
metrics_stampsTime ==
    /\ response' = [status |-> 200, body |-> get_metrics(quantum_core)]
    /\ last_op' = "metrics"
    /\ request' = NoRequest
    /\ quantum_core' = [quantum_core EXCEPT !.metrics.last_execution_time = 0]
    /\ UNCHANGED history

(* GET /metrics *)
metrics ==
    /\ response' = [status |-> 200, body |-> get_metrics(quantum_core)]
    /\ last_op' = "metrics"
    /\ request' = NoRequest
    /\ UNCHANGED <<quantum_core, history>>

(* the JSON bodies of POST /api/feel: one that get_json or data.get cannot *)
(* read, one without the key, and one per label                            *)
Malformed == "<malformed>"
Absent == "<absent>"
FeelRequests == {Malformed, Absent, "JOY", "fear", "anticipation"}

IsEmotion(emotion) == \E i \in Idx : EMOTIONS[i] = emotion

IndexOf(emotion) == CHOOSE i \in Idx : EMOTIONS[i] = emotion /\ \A j \in 1..(i - 1) : EMOTIONS[j] # emotion

OneHot(idx) == [i \in Idx |-> IF i = idx THEN ONE ELSE 0]

(* a handler that clears the emotional vector before it validates the label *)
api_feel_clearsFirst(cap) ==
    /\ \E req \in FeelRequests :
         LET emotion == IF req = Absent THEN "joy" ELSE req
         IN  /\ request' = req
             /\ IF req = Malformed
                THEN /\ response' = [status |-> 500]
                     /\ UNCHANGED <<quantum_core, history>>
                ELSE IF ~IsEmotion(emotion)
                THEN /\ response' = [status |-> 400]
                     /\ quantum_core' = [quantum_core EXCEPT !.emotional_vector = Zeros]
                     /\ UNCHANGED history
                ELSE LET c == [quantum_core EXCEPT !.emotional_vector = OneHot(IndexOf(emotion))]
                     IN  /\ quantum_core.metrics.executions < cap
                         /\ \E envs \in CycleEnvs(c, Intensities, NoiseVectors), elapsed \in ElapsedTimes :
                              LET r == execute_quantum_emotion_cycle(c, envs[1], envs[2], elapsed)
                              IN  /\ quantum_core' = r.core
                                  /\ response' =
                                       IF r.raised THEN [status |-> 500]
                                       ELSE [status |-> 200, success |-> r.value, emotion |-> emotion,
                                             state |-> r.core.emotion_state,
                                             metrics |-> get_metrics(r.core)]
                                  /\ history' = Record(history, c, envs[1], r)
    /\ last_op' = "api_feel"

api_feel(cap) ==
    /\ \E req \in FeelRequests :
         LET emotion == IF req = Absent THEN "joy" ELSE req
         IN  /\ request' = req
             /\ IF req = Malformed
                THEN /\ response' = [status |-> 500]
                     /\ UNCHANGED <<quantum_core, history>>
                ELSE IF ~IsEmotion(emotion)
                THEN /\ response' = [status |-> 400]
                     /\ UNCHANGED <<quantum_core, history>>
                ELSE LET c == [quantum_core EXCEPT !.emotional_vector = OneHot(IndexOf(emotion))]
                     IN  /\ quantum_core.metrics.executions < cap
                         /\ \E envs \in CycleEnvs(c, Intensities, NoiseVectors), elapsed \in ElapsedTimes :
                              LET r == execute_quantum_emotion_cycle(c, envs[1], envs[2], elapsed)
                              IN  /\ quantum_core' = r.core
                                  /\ response' =
                                       IF r.raised THEN [status |-> 500]
                                       ELSE [status |-> 200, success |-> r.value, emotion |-> emotion,
                                             state |-> r.core.emotion_state,
                                             metrics |-> get_metrics(r.core)]
                                  /\ history' = Record(history, c, envs[1], r)
    /\ last_op' = "api_feel"

(***************************************************************************)
(* aura400_prod.py: the command line module.  Floats are thousandths, as   *)
(* above; NaN stands for float('nan'), which every arithmetic operation    *)
(* and np.clip propagate and every comparison answers False for.           *)
(***************************************************************************)
NaN == -999999

IsNaN(x) == x = NaN

Mul(a, b) == IF IsNaN(a) \/ IsNaN(b) THEN NaN ELSE (a * b) \div ONE

Add(a, b) == IF IsNaN(a) \/ IsNaN(b) THEN NaN ELSE a + b

(* Python's chained comparison lo <= x <= hi *)
Between(lo, x, hi) == ~IsNaN(x) /\ lo <= x /\ x <= hi

clip(x, lo, hi) ==
    IF IsNaN(x) THEN NaN ELSE IF x < lo THEN lo ELSE IF x > hi THEN hi ELSE x

QUBITS_PER_CELL == 4

MaxCells == 4

CellCounts == 1..MaxCells

aura400_EMOTIONS ==
    [alegria |-> 900, tristeza |-> 100, miedo |-> 200, ira |-> 300,
     sorpresa |-> 800, asco |-> 150, confianza |-> 700, anticipacion |-> 600]

NEUTRAL == 500

None == "<None>"

Labels == {"alegria", "ALEGRIA", "Alegria", "tristeza", "joy", ""}

(* str.lower on the labels used *)
lower(label) ==
    CASE label \in {"ALEGRIA", "Alegria"} -> "alegria"
      [] OTHER -> label

(* deviations of a normal draw of scale 0.05 from its centre: four standard *)
(* deviations below, none, two above                                        *)
NormalDeviations == {-200, 0, 100}

AnyIntensities == {-500, 0, 500, 1000, 1500, NaN}

ShotCounts == {0, 1, 1024}

Fidelities == {0, ONE}

Draws(n, deviations) == [1..n -> deviations]

ExecEnvs ==
    {[raises |-> TRUE, fidelity |-> 0]} \cup {[raises |-> FALSE, fidelity |-> f] : f \in Fidelities}

(* Aura400Circuit.__init__ *)
Aura400Circuit(n_cells, qubits_per_cell) ==
    [n_cells |-> n_cells, qubits_per_cell |-> qubits_per_cell,
     total_qubits |-> n_cells * qubits_per_cell, last_result |-> [none |-> TRUE]]

(* Gates, as the calls made on the QuantumCircuit, with 0-based qubits.    *)
RECURSIVE Flatten(_)
Flatten(seqs) == IF seqs = <<>> THEN <<>> ELSE Head(seqs) \o Flatten(Tail(seqs))

Gate(name, qubits) == [name |-> name, qubits |-> qubits]

(* range(0, self.total_qubits, self.qubits_per_cell), in order *)
FirstQubits(self) == [k \in 1..self.n_cells |-> (k - 1) * self.qubits_per_cell]

_build_intra_cell_connections(self) ==
    Flatten([k \in 1..self.n_cells |->
               LET i == FirstQubits(self)[k]
               IN  (IF i + 1 < self.total_qubits THEN <<Gate("cry", <<i, i + 1>>)>> ELSE <<>>)
                   \o (IF i + 2 < self.total_qubits /\ i + 3 < self.total_qubits
                       THEN <<Gate("cry", <<i + 2, i + 3>>), Gate("cz", <<i + 1, i + 2>>)>>
                       ELSE <<>>)])

_build_inter_cell_connections(self) ==
    [k \in 1..self.n_cells |->
       LET i == FirstQubits(self)[k]
           j == (i + self.qubits_per_cell) % self.total_qubits
       IN  Gate("swap", <<i, j>>)]

_add_emotional_feedback(self) ==
    [k \in 1..self.n_cells |-> Gate("ry", <<FirstQubits(self)[k]>>)]

(* QuantumCircuit refuses a gate whose qubits repeat or lie outside the    *)
(* register (CircuitError)                                                 *)
Refused(self, gate) ==
    \/ \E a, b \in 1..Len(gate.qubits) : a # b /\ gate.qubits[a] = gate.qubits[b]
    \/ \E a \in 1..Len(gate.qubits) : gate.qubits[a] \notin 0..(self.total_qubits - 1)

build_circuit(self) ==
    LET gates == [q \in 1..self.total_qubits |-> Gate("h", <<q - 1>>)]
                 \o _build_intra_cell_connections(self)
                 \o _build_inter_cell_connections(self)
                 \o _add_emotional_feedback(self)
    IN  [raised |-> \E g \in 1..Len(gates) : Refused(self, gates[g]), gates |-> gates]

validate_args(args) ==
    IF ~Between(0, args.intensity, ONE) THEN FALSE
    ELSE IF args.shots < 1 THEN FALSE
    ELSE IF args.emotion \notin {None, ""} /\ lower(args.emotion) \notin DOMAIN aura400_EMOTIONS THEN FALSE
    ELSE TRUE

emotion_to_params_unclipped(self, emotion, intensity, draws) ==
    LET base == IF lower(emotion) \in DOMAIN aura400_EMOTIONS
                THEN aura400_EMOTIONS[lower(emotion)] ELSE NEUTRAL
    IN  [i \in 1..self.n_cells |-> Add(Mul(base, intensity), draws[i])]

emotion_to_params_caseSensitive(self, emotion, intensity, draws) ==
    LET base == IF emotion \in DOMAIN aura400_EMOTIONS
                THEN aura400_EMOTIONS[emotion] ELSE NEUTRAL
    IN  [i \in 1..self.n_cells |-> clip(Add(Mul(base, intensity), draws[i]), 0, ONE)]

emotion_to_params_joyKnown(self, emotion, intensity, draws) ==
    LET base == IF lower(emotion) \in DOMAIN aura400_EMOTIONS
                THEN aura400_EMOTIONS[lower(emotion)]
                ELSE IF emotion = "joy" THEN 900 ELSE NEUTRAL
    IN  [i \in 1..self.n_cells |-> clip(Add(Mul(base, intensity), draws[i]), 0, ONE)]

emotion_to_params(self, emotion, intensity, draws) ==
    LET base == IF lower(emotion) \in DOMAIN aura400_EMOTIONS
                THEN aura400_EMOTIONS[lower(emotion)] ELSE NEUTRAL
    IN  [i \in 1..self.n_cells |-> clip(Add(Mul(base, intensity), draws[i]), 0, ONE)]

(* an execute_circuit that builds the circuit and forgets the last result *)
(* before it looks at the parameters                                       *)
execute_circuit_checksLate(self, parameter_values, shots, env) ==
    IF build_circuit(self).raised \/ Len(parameter_values) # self.n_cells \/ env.raises
    THEN [raised |-> TRUE, self |-> [self EXCEPT !.last_result = [none |-> TRUE]],
          value |-> [none |-> TRUE], built |-> TRUE, ran |-> FALSE]
    ELSE LET last_result ==
               [state_vector |-> <<env.fidelity>>,
                metrics |-> [fidelity |-> env.fidelity, shots |-> shots,
                             backend |-> "aer_simulator", n_cells |-> self.n_cells,
                             qubits_per_cell |-> self.qubits_per_cell,
                             total_qubits |-> self.total_qubits]]
         IN  [raised |-> FALSE, self |-> [self EXCEPT !.last_result = last_result],
              value |-> last_result, built |-> TRUE, ran |-> TRUE]

(* the state vector is kept as the squared magnitude of its first          *)
(* amplitude; built and ran tell whether build_circuit and backend.run     *)
(* were called                                                             *)
execute_circuit(self, parameter_values, shots, env) ==
    IF Len(parameter_values) # self.n_cells
    THEN [raised |-> TRUE, self |-> self, value |-> [none |-> TRUE],
          built |-> FALSE, ran |-> FALSE]
    ELSE IF build_circuit(self).raised
    THEN [raised |-> TRUE, self |-> self, value |-> [none |-> TRUE],
          built |-> TRUE, ran |-> FALSE]
    ELSE IF env.raises
    THEN [raised |-> TRUE, self |-> self, value |-> [none |-> TRUE],
          built |-> TRUE, ran |-> TRUE]
    ELSE LET last_result ==
               [state_vector |-> <<env.fidelity>>,
                metrics |-> [fidelity |-> env.fidelity, shots |-> shots,
                             backend |-> "aer_simulator", n_cells |-> self.n_cells,
                             qubits_per_cell |-> self.qubits_per_cell,
                             total_qubits |-> self.total_qubits]]
         IN  [raised |-> FALSE, self |-> [self EXCEPT !.last_result = last_result],
              value |-> last_result, built |-> TRUE, ran |-> TRUE]

(* a feel_emotion that hands back the result of execute_circuit as it is *)
feel_emotion_noEcho(self, emotion, intensity, shots, draws, env) ==
    execute_circuit(self, emotion_to_params(self, emotion, intensity, draws), shots, env)

feel_emotion(self, emotion, intensity, shots, draws, env) ==
    LET params == emotion_to_params(self, emotion, intensity, draws)
        r == execute_circuit(self, params, shots, env)
    IN  IF r.raised THEN r
        ELSE LET result == [state_vector |-> r.value.state_vector, metrics |-> r.value.metrics,
                            emotion |-> emotion, intensity |-> intensity]
             IN  [raised |-> FALSE, self |-> [r.self EXCEPT !.last_result = result],
                  value |-> result, built |-> TRUE, ran |-> TRUE]

NoResult == [none |-> TRUE]

NoArgs == [emotion |-> None, intensity |-> ONE, shots |-> 1024, list |-> FALSE,
           info |-> FALSE, params |-> <<>>]

(* no process of the command line module is running *)
NoProcess ==
    [op |-> "none", n_cells |-> 0, args |-> NoArgs, draws |-> <<>>,
     constructed |-> FALSE, encoded |-> FALSE, executed |-> FALSE,
     params |-> <<>>, result |-> NoResult, exit |-> Null]

(* --params, already split at its commas; <<>> is an option not given (or empty) *)
ParamArgs == {<<>>, <<"0.5">>, <<"0.1", "0.9">>, <<"x">>}

FloatOf == ("0.1" :> 100) @@ ("0.5" :> 500) @@ ("0.9" :> 900)

MainArgs ==
    [emotion : {None, "", "alegria", "ALEGRIA", "joy"},
     intensity : {-500, 0, ONE, 1500, NaN},
     shots : ShotCounts, list : BOOLEAN, info : BOOLEAN, params : ParamArgs]

MainCells == {1, 2}

UniformValues == {0, 500}

(* a program that builds a circuit of n cells and asks it for one encoding *)
call_emotion_to_params(cells, labels, intensities, deviations) ==
    /\ cli.op = "none"
    /\ \E n \in cells, emotion \in labels, intensity \in intensities :
         \E draws \in Draws(n, deviations) :
            cli' = [NoProcess EXCEPT
                      !.op = "emotion_to_params", !.n_cells = n,
                      !.args = [NoArgs EXCEPT !.emotion = emotion, !.intensity = intensity],
                      !.draws = draws, !.constructed = TRUE, !.encoded = TRUE,
                      !.params = emotion_to_params(Aura400Circuit(n, QUBITS_PER_CELL), emotion, intensity, draws)]
    /\ UNCHANGED <<web, threads, aura, dashboard>>

(* a program that builds a circuit of n cells and calls feel_emotion once *)
call_feel_emotion(cells, labels, intensities, deviations) ==
    /\ cli.op = "none"
    /\ \E n \in cells, emotion \in labels, intensity \in intensities, shots \in ShotCounts :
         \E draws \in Draws(n, deviations), env \in ExecEnvs :
            LET self == Aura400Circuit(n, QUBITS_PER_CELL)
                r == feel_emotion(self, emotion, intensity, shots, draws, env)
            IN  cli' = [NoProcess EXCEPT
                          !.op = "feel_emotion", !.n_cells = n,
                          !.args = [NoArgs EXCEPT !.emotion = emotion, !.intensity = intensity,
                                                  !.shots = shots],
                          !.draws = draws, !.constructed = TRUE, !.encoded = TRUE,
                          !.executed = TRUE,
                          !.params = emotion_to_params(self, emotion, intensity, draws),
                          !.result = r.value]
    /\ UNCHANGED <<web, threads, aura, dashboard>>

(* python aura400_prod.py with the given options, N_BLOCKS = n *)
main(cells, deviations) ==
    /\ cli.op = "none"
    /\ \E n \in cells, args \in MainArgs :
         \E draws \in Draws(n, deviations), uniform \in UniformValues, env \in ExecEnvs :
            LET started == [NoProcess EXCEPT !.op = "main", !.n_cells = n, !.args = args]
                self == Aura400Circuit(n, QUBITS_PER_CELL)
                built == [started EXCEPT !.constructed = TRUE]
            IN  cli' =
                  IF ~validate_args(args) THEN [started EXCEPT !.exit = 1]
                  ELSE IF args.list \/ args.info THEN [built EXCEPT !.exit = 0]
                  ELSE IF args.emotion \notin {None, ""}
                  THEN LET r == feel_emotion(self, args.emotion, args.intensity, args.shots, draws, env)
                       IN  [built EXCEPT
                              !.draws = draws, !.encoded = TRUE, !.executed = TRUE,
                              !.params = emotion_to_params(self, args.emotion, args.intensity, draws),
                              !.result = r.value, !.exit = IF r.raised THEN 2 ELSE 0]
                  ELSE IF \E i \in 1..Len(args.params) : args.params[i] \notin DOMAIN FloatOf
                  THEN [built EXCEPT !.exit = 1]
                  ELSE LET param_values ==
                             IF args.params # <<>>
                             THEN [i \in 1..Len(args.params) |-> FloatOf[args.params[i]]]
                             ELSE [i \in 1..n |-> uniform]
                           r == execute_circuit(self, param_values, args.shots, env)
                       IN  [built EXCEPT
                              !.executed = TRUE, !.params = param_values,
                              !.result = r.value, !.exit = IF r.raised THEN 2 ELSE 0]
    /\ UNCHANGED <<web, threads, aura, dashboard>>

(* the process ends *)
exit ==
    /\ cli.op # "none"
    /\ cli' = NoProcess
    /\ UNCHANGED <<web, threads, aura, dashboard>>

(***************************************************************************)
(* One Aura400Circuit object and the calls a program makes on it.          *)
(***************************************************************************)
MaxQubitsPerCell == 5

CellSizes == 1..MaxQubitsPerCell

NoCircuit ==
    [op |-> "none", self |-> Aura400Circuit(0, 0), gates |-> <<>>, length |-> 0,
     raised |-> FALSE, built |-> FALSE, ran |-> FALSE]

(* aura = Aura400Circuit(n_cells, qubits_per_cell) *)
new_circuit ==
    /\ aura.op = "none"
    /\ \E n \in CellCounts, q \in CellSizes :
         aura' = [NoCircuit EXCEPT !.op = "__init__", !.self = Aura400Circuit(n, q)]
    /\ UNCHANGED <<web, cli, threads, dashboard>>

(* aura.build_circuit() *)
call_build_circuit ==
    /\ aura.op # "none"
    /\ LET r == build_circuit(aura.self)
       IN  aura' = [NoCircuit EXCEPT !.op = "build_circuit", !.self = aura.self,
                                     !.gates = r.gates, !.raised = r.raised, !.built = TRUE]
    /\ UNCHANGED <<web, cli, threads, dashboard>>

(* aura.execute_circuit(parameter_values) with one parameter too few, the *)
(* right number or one too many                                           *)
call_execute_circuit ==
    /\ aura.op # "none"
    /\ \E length \in {aura.self.n_cells - 1, aura.self.n_cells, aura.self.n_cells + 1},
          env \in ExecEnvs :
         LET r == execute_circuit(aura.self, [i \in 1..length |-> NEUTRAL], 1024, env)
         IN  aura' = [NoCircuit EXCEPT !.op = "execute_circuit", !.self = r.self,
                                       !.length = length, !.raised = r.raised,
                                       !.built = r.built, !.ran = r.ran]
    /\ UNCHANGED <<web, cli, threads, dashboard>>

(* the object is dropped *)
del_circuit ==
    /\ aura.op # "none"
    /\ aura' = NoCircuit
    /\ UNCHANGED <<web, cli, threads, dashboard>>

(***************************************************************************)
(* The script of the dashboard page, in one browser tab.  requests holds   *)
(* the promise chains that updateMetrics has started and that have not yet *)
(* run their finally handler; each callback of a chain is one step.        *)
(***************************************************************************)
NoBody == [status |-> 0]

NoPage ==
    [loaded |-> FALSE, isUpdating |-> FALSE, requests |-> <<>>,
     indicator |-> "none", backend |-> "none", last_call |-> "none", last_outcome |-> "none"]

(* the names a backend value is made of, between its underscores *)
Words(backend) ==
    CASE backend = "QISKIT_AER_SIMULATOR" -> <<"QISKIT", "AER", "SIMULATOR">>
      [] backend = "CLASSICAL_QUANTUM_SIMULATION" -> <<"CLASSICAL", "QUANTUM", "SIMULATION">>
      [] backend = "QUANTUM_SIMULATOR" -> <<"QUANTUM", "SIMULATOR">>

(* String.prototype.includes, for a word without underscore *)
includes(backend, word) == \E i \in 1..Len(Words(backend)) : Words(backend)[i] = word

updateBackendIndicator(backend) ==
    IF includes(backend, "QUANTUM") THEN "Quantum" ELSE "Classic"

(* lines 684-686: the call itself, up to the fetch *)
updateMetrics(d) ==
    IF d.isUpdating THEN [d EXCEPT !.last_call = "skipped"]
    ELSE [d EXCEPT !.isUpdating = TRUE, !.last_call = "started",
                   !.requests = Append(@, [stage |-> "fetch", m |-> NoBody, outcome |-> "none"])]

(* lines 968-971 *)
DOMContentLoaded ==
    /\ ~dashboard.loaded
    /\ dashboard' = updateMetrics([dashboard EXCEPT !.loaded = TRUE])
    /\ UNCHANGED <<web, cli, threads, aura>>

(* a tick of setInterval(updateMetrics, 2000) *)
timer ==
    /\ dashboard.loaded
    /\ dashboard' = updateMetrics(dashboard)
    /\ UNCHANGED <<web, cli, threads, aura>>

(* lines 1029-1041, the reset answered *)
resetCore ==
    /\ dashboard.loaded
    /\ api_reset
    /\ dashboard' = updateMetrics(dashboard)
    /\ UNCHANGED <<cli, threads, aura>>

Stage(k, stage) == k \in 1..Len(dashboard.requests) /\ dashboard.requests[k].stage = stage

(* the fetch fails on the network *)
fetch_rejects(k) ==
    /\ Stage(k, "fetch")
    /\ dashboard' = [dashboard EXCEPT !.requests[k].stage = "catch",
                                      !.requests[k].outcome = "network"]
    /\ UNCHANGED <<web, cli, threads, aura>>

(* the server serves GET /api/metrics and the response arrives *)
fetch_resolves(k) ==
    /\ Stage(k, "fetch")
    /\ api_metrics(MaxCycles, {1}, {Zeros})
    /\ dashboard' = [dashboard EXCEPT !.requests[k].stage = "json", !.requests[k].m = response']
    /\ UNCHANGED <<cli, threads, aura>>

(* line 687: r.json() *)
json_resolves(k) ==
    /\ Stage(k, "json")
    /\ dashboard' = [dashboard EXCEPT !.requests[k].stage = "then"]
    /\ UNCHANGED <<web, cli, threads, aura>>

(* lines 688-766: the error body of a 500 has no backend and m.backend.includes throws *)
then_render(k) ==
    /\ Stage(k, "then")
    /\ LET m == dashboard.requests[k].m
       IN  dashboard' =
             IF m.status # 200
             THEN [dashboard EXCEPT !.requests[k].stage = "catch", !.requests[k].outcome = "threw"]
             ELSE [dashboard EXCEPT !.requests[k].stage = "finally", !.requests[k].outcome = "ok",
                                    !.backend = m.body.backend,
                                    !.indicator = updateBackendIndicator(m.body.backend)]
    /\ UNCHANGED <<web, cli, threads, aura>>

(* line 768 *)
catch_logs(k) ==
    /\ Stage(k, "catch")
    /\ dashboard' = [dashboard EXCEPT !.requests[k].stage = "finally"]
    /\ UNCHANGED <<web, cli, threads, aura>>

Remove(seq, k) == [i \in 1..(Len(seq) - 1) |-> IF i < k THEN seq[i] ELSE seq[i + 1]]

(* a script that clears the flag at the end of the rendering callback only *)
finally_clears_afterRender(k) ==
    /\ Stage(k, "finally")
    /\ dashboard' = [dashboard EXCEPT
                       !.isUpdating = IF dashboard.requests[k].outcome = "ok" THEN FALSE ELSE @,
                       !.last_outcome = dashboard.requests[k].outcome,
                       !.requests = Remove(@, k)]
    /\ UNCHANGED <<web, cli, threads, aura>>

(* lines 769-771 *)
finally_clears(k) ==
    /\ Stage(k, "finally")
    /\ dashboard' = [dashboard EXCEPT !.isUpdating = FALSE,
                                      !.last_outcome = dashboard.requests[k].outcome,
                                      !.requests = Remove(@, k)]
    /\ UNCHANGED <<web, cli, threads, aura>>

(* the threads of the server that run a cycle at once *)
Threads == {1, 2}

Idle == [pc |-> "idle", tmp |-> 0, success |-> FALSE, raised |-> FALSE, overlapped |-> FALSE]

Init ==
    /\ quantum_core \in {__init__(v, s, o) : v \in RandomVectors, s \in SessionIds, o \in BackendOutcomes}
    /\ last_op = "init"
    /\ request = NoRequest
    /\ response = [status |-> 0]
    /\ history = NoHistory
    /\ cli = NoProcess
    /\ threads = [t \in Threads |-> Idle]
    /\ aura = NoCircuit
    /\ dashboard = NoPage

Next ==
    \/ api_metrics(MaxCycles, Intensities, NoiseVectors) /\ UNCHANGED <<cli, threads, aura, dashboard>>
    \/ api_feel(MaxCycles) /\ UNCHANGED <<cli, threads, aura, dashboard>>
    \/ metrics /\ UNCHANGED <<cli, threads, aura, dashboard>>
    \/ api_reset /\ UNCHANGED <<cli, threads, aura, dashboard>>

Spec == Init /\ [][Next]_vars

(* Fallback mode alone, polled by the dashboard: the scenario of ten cycles *)
InitFallback == Init /\ ~quantum_core.qiskit_available

(* the scenario is about the counters: its clock and its noise stand still *)
NextFallback == api_metrics(ScenarioCycles, {1}, {Zeros}) /\ UNCHANGED <<cli, threads, aura, dashboard>>

SpecFallback == InitFallback /\ [][NextFallback]_vars

(* The command line module on its own: programs that encode one emotion,   *)
(* and runs of the script; the web application is idle.                    *)
InitCli == Init /\ quantum_core = __init__(Zeros, 1, "import_error")

MainDeviations == {0, 100}

NextCli ==
    \/ call_emotion_to_params(CellCounts, Labels, AnyIntensities, NormalDeviations)
    \/ main(MainCells, MainDeviations)
    \/ exit

SpecCli == InitCli /\ [][NextCli]_vars

(* Programs that construct a circuit object and call it *)
NextCircuit ==
    \/ new_circuit
    \/ call_build_circuit
    \/ call_execute_circuit
    \/ del_circuit

SpecCircuit == InitCli /\ [][NextCircuit]_vars

(* One dashboard page polling the server *)
Chains == {1, 2}

NextDashboard ==
    \/ DOMContentLoaded
    \/ timer
    \/ resetCore
    \/ \E k \in Chains : fetch_rejects(k)
    \/ \E k \in Chains : fetch_resolves(k)
    \/ \E k \in Chains : json_resolves(k)
    \/ \E k \in Chains : then_render(k)
    \/ \E k \in Chains : catch_logs(k)
    \/ \E k \in Chains : finally_clears(k)

SpecDashboard == Init /\ [][NextDashboard]_vars

(* One emotion invocation through each module: POST /api/feel on a fresh   *)
(* core and feel_emotion on a fresh circuit.                               *)
InvocationCells == {1, 2}

InvocationLabels == {"alegria", "joy"}

InvocationIntensities == {500, ONE}

NextInvocation ==
    \/ api_feel(1) /\ UNCHANGED <<cli, threads, aura, dashboard>>
    \/ call_feel_emotion(InvocationCells, InvocationLabels, InvocationIntensities, {0})
    \/ exit

SpecInvocation == InitCli /\ [][NextInvocation]_vars

--------------------------------------------------------------------------
(* Properties *)

(***************************************************************************)
(* Two requests of /api/metrics served at once by two threads of the       *)
(* server: execute_quantum_emotion_cycle statement by statement, each      *)
(* `+= 1` as the read and the write it is made of.  An evaluation is taken *)
(* as one step.  overlapped is set when a cycle runs while another one is  *)
(* in progress.                                                            *)
(***************************************************************************)
Working(t) == threads[t].pc \notin {"idle", "done"}

(* line 196 *)
begin(t) ==
    /\ threads[t].pc = "idle"
    /\ threads' = [u \in Threads |->
                     IF u = t
                     THEN [threads[u] EXCEPT !.pc = "evaluate",
                                             !.overlapped = \E v \in Threads \ {t} : Working(v)]
                     ELSE IF Working(u) THEN [threads[u] EXCEPT !.overlapped = TRUE]
                     ELSE threads[u]]
    /\ UNCHANGED <<web, cli, aura, dashboard>>

(* lines 198-201 *)
evaluate(t) ==
    /\ threads[t].pc = "evaluate"
    /\ \E env \in Envs(quantum_core.emotional_vector, {1}, {Zeros}) :
         LET r == IF quantum_core.qiskit_available
                  THEN real_quantum_simulation(quantum_core, env)
                  ELSE classical_quantum_simulation(quantum_core, env)
         IN  /\ quantum_core' = r.core
             /\ threads' = [threads EXCEPT ![t].pc = IF r.raised THEN "errors_read" ELSE "set_time",
                                           ![t].raised = r.raised,
                                           ![t].success = r.value]
    /\ UNCHANGED <<last_op, request, response, history, cli, aura, dashboard>>

(* lines 203-204 *)
set_time(t) ==
    /\ threads[t].pc = "set_time"
    /\ \E elapsed \in ElapsedTimes :
         quantum_core' = [quantum_core EXCEPT !.metrics.last_execution_time = elapsed]
    /\ threads' = [threads EXCEPT ![t].pc = "executions_read"]
    /\ UNCHANGED <<last_op, request, response, history, cli, aura, dashboard>>

(* line 216: the read of errors += 1 *)
read_errors(t) ==
    /\ threads[t].pc = "errors_read"
    /\ threads' = [threads EXCEPT ![t].pc = "errors_write", ![t].tmp = quantum_core.metrics.errors]
    /\ UNCHANGED <<web, cli, aura, dashboard>>

(* line 216: the write of errors += 1 *)
write_errors(t) ==
    /\ threads[t].pc = "errors_write"
    /\ quantum_core' = [quantum_core EXCEPT !.metrics.errors = threads[t].tmp + 1]
    /\ threads' = [threads EXCEPT ![t].pc = "executions_read"]
    /\ UNCHANGED <<last_op, request, response, history, cli, aura, dashboard>>

(* line 206, or line 217 on the exception path: the read of executions += 1 *)
read_executions(t) ==
    /\ threads[t].pc = "executions_read"
    /\ threads' = [threads EXCEPT ![t].pc = "executions_write",
                                  ![t].tmp = quantum_core.metrics.executions]
    /\ UNCHANGED <<web, cli, aura, dashboard>>

(* a write that counts the cycle twice *)
write_executions_twice(t) ==
    /\ threads[t].pc = "executions_write"
    /\ quantum_core' = [quantum_core EXCEPT !.metrics.executions = threads[t].tmp + 2]
    /\ threads' = [threads EXCEPT ![t].pc = IF threads[t].raised \/ threads[t].success
                                            THEN "success_rate" ELSE "done"]
    /\ UNCHANGED <<last_op, request, response, history, cli, aura, dashboard>>

(* line 206, or line 217 on the exception path: the write of executions += 1 *)
write_executions(t) ==
    /\ threads[t].pc = "executions_write"
    /\ quantum_core' = [quantum_core EXCEPT !.metrics.executions = threads[t].tmp + 1]
    /\ threads' = [threads EXCEPT ![t].pc = IF threads[t].raised \/ threads[t].success
                                            THEN "success_rate" ELSE "done"]
    /\ UNCHANGED <<last_op, request, response, history, cli, aura, dashboard>>

(* lines 207-211, or lines 218-221 on the exception path *)
update_success_rate(t) ==
    /\ threads[t].pc = "success_rate"
    /\ quantum_core' =
         [quantum_core EXCEPT !.metrics.success_rate =
            IF threads[t].raised THEN SuccessRateGuarded(quantum_core.metrics)
            ELSE SuccessRate(quantum_core.metrics)]
    /\ threads' = [threads EXCEPT ![t].pc = IF threads[t].raised THEN "retry" ELSE "done"]
    /\ UNCHANGED <<last_op, request, response, history, cli, aura, dashboard>>

(* line 222 *)
retry(t) ==
    /\ threads[t].pc = "retry"
    /\ \E env \in Envs(quantum_core.emotional_vector, {1}, {Zeros}) :
         LET r == classical_quantum_simulation(quantum_core, env)
         IN  /\ quantum_core' = r.core
             /\ threads' = [threads EXCEPT ![t].pc = "done", ![t].success = r.value]
    /\ UNCHANGED <<last_op, request, response, history, cli, aura, dashboard>>

InitConcurrent ==
    /\ Init
    /\ quantum_core \in {__init__([i \in Idx |-> IF i = 1 THEN 490 ELSE 0], 1, o) :
                           o \in {"ok", "import_error"}}

NextConcurrent ==
    \/ \E t \in Threads : begin(t)
    \/ \E t \in Threads : evaluate(t)
    \/ \E t \in Threads : set_time(t)
    \/ \E t \in Threads : read_errors(t)
    \/ \E t \in Threads : write_errors(t)
    \/ \E t \in Threads : read_executions(t)
    \/ \E t \in Threads : write_executions(t)
    \/ \E t \in Threads : update_success_rate(t)
    \/ \E t \in Threads : retry(t)
    \/ metrics /\ UNCHANGED <<cli, threads, aura, dashboard>>

SpecConcurrent == InitConcurrent /\ [][NextConcurrent]_vars

M == quantum_core.metrics

IsDistribution(st) ==
    /\ \A i \in Idx : st.w[i] >= 0
    /\ st.total > 0
    /\ Sum(st.w) = st.total

(* C1: after any sequence of completed operations (cycles that succeed,    *)
(* whose simulation fails or that take the exception path, /api/feel calls *)
(* and resets) metrics.errors <= metrics.executions.                       *)
C1_ErrorsAtMostExecutions == M.errors <= M.executions

(* repeated failures: every cycle so far raised *)
C1_Witness == M.errors = 2 /\ M.executions = 2 /\ last_op = "api_feel"

(* C2: after every completed operation success_rate is 100 when            *)
(* executions = 0 and 100 * (executions - errors) / executions otherwise.  *)
C2_SuccessRateFormula ==
    IF M.executions = 0
    THEN M.success_rate = [n |-> 100, d |-> 1]
    ELSE M.success_rate.d > 0 /\
         M.success_rate.n * M.executions = 100 * (M.executions - M.errors) * M.success_rate.d

C2_Witness == M.executions = 3 /\ M.errors = 1 /\ history.last_eval = "ok"

(* C3: when the simulation of a cycle fails in simulation mode, that cycle *)
(* falls back to the classical evaluation: the statistics are computed by  *)
(* classical_quantum_simulation, success is reported, nothing is raised.   *)
C3_SimulationFailureFallsBack ==
    history.last_eval = "sim_failed" =>
        quantum_core.computed_by = "classical" /\ history.last_return = "True"

(* C4: every cycle whose simulation fails is counted as an error: errors   *)
(* grows by exactly one in that cycle and by zero in a cycle with no       *)
(* failure, so errors counts the cycles that failed.                       *)
C4_FailuresCounted ==
    M.errors = history.sim_failed + Cardinality(history.raised_at)

(* C5: after n >= 1 cycles since construction or reset, each of which      *)
(* computed an intensity, avg_intensity is the arithmetic mean of the n    *)
(* intensities.                                                            *)
C5_AvgIsMean ==
    (history.cycles >= 1 /\ history.sim_failed = 0 /\ history.raised_at = {}) =>
        M.avg_intensity.n * history.cycles = history.sum_intensity * M.avg_intensity.d

(* C6: every invocation of execute_quantum_emotion_cycle adds exactly one  *)
(* to executions, on every path, and executions never decreases except     *)
(* through reset.                                                          *)
C6_OneExecutionPerCycle ==
    [][IF history'.cycles = history.cycles + 1
       THEN quantum_core'.metrics.executions = M.executions + 1
       ELSE last_op' = "api_reset" \/ quantum_core'.metrics.executions >= M.executions]_vars

C6_Witness ==
    /\ history.cycles = 3 /\ M.executions = 3
    /\ history.raised_at = {1, 3} /\ history.last_return = "raised"

(* C7: in fallback mode, after n cycles of which k raised in the classical *)
(* evaluation, executions = n, errors = k and success_rate =               *)
(* 100 * (n - k) / n; ten cycles with errors on cycles 3 and 7 give        *)
(* executions 10, errors 2, success_rate 80.                               *)
C7_FallbackCounters ==
    ~quantum_core.qiskit_available =>
        LET n == history.cycles
            k == Cardinality(history.raised_at)
        IN  /\ M.executions = n
            /\ M.errors = k
            /\ n >= 1 => M.success_rate.n * n = 100 * (n - k) * M.success_rate.d
            /\ (n = 10 /\ history.raised_at = {3, 7}) =>
                   M.executions = 10 /\ M.errors = 2 /\ M.success_rate = [n |-> 80, d |-> 1]

C7_Witness ==
    /\ history.cycles = 10 /\ history.raised_at = {3, 7}
    /\ history.last_return = "True"
    /\ M.success_rate = [n |-> 80, d |-> 1]

(* C8, as claimed: after reset every counter has its initial value and the *)
(* session identifier differs from the one before the reset.               *)
C8_ResetChangesSession ==
    [][last_op' = "api_reset" =>
         /\ quantum_core'.metrics = InitialMetrics
         /\ quantum_core'.session_id # quantum_core.session_id]_vars

(* C8, amended: after reset executions = 0, errors = 0, avg_intensity = 0, *)
(* success_rate = 100, last_execution_time is null and the session         *)
(* identifier is a newly drawn one, which may equal the one before.        *)
C8_ResetRestoresCounters ==
    last_op = "api_reset" =>
        /\ M.executions = 0
        /\ M.errors = 0
        /\ M.avg_intensity = [n |-> 0, d |-> 1]
        /\ M.success_rate = [n |-> 100, d |-> 1]
        /\ M.last_execution_time = Null
        /\ quantum_core.session_id \in SessionIds
        /\ response.session = quantum_core.session_id

C8_Witness ==
    /\ last_op = "api_reset"
    /\ history.discarded.executions = 3 /\ history.discarded.errors = 2

(* C9: after every cycle, in either mode, whether it succeeded or its      *)
(* simulation failed, emotion_state has 8 non-negative entries that sum    *)
(* to 1.                                                                   *)
C9_StateIsDistribution ==
    history.last_return \in {"True", "False"} => IsDistribution(quantum_core.emotion_state)

(* C10: right after construction and right after reset, before any cycle,  *)
(* the 'state' of the metrics snapshot is a probability distribution: 8    *)
(* non-negative entries that sum to 1.                                     *)
C10_InitialStateIsDistribution ==
    history.cycles = 0 => IsDistribution(get_metrics(quantum_core).state)

(* C11: the evaluator mode (qiskit_available, backend_type) is chosen by   *)
(* the constructor and no cycle, /api/feel call or metrics query changes   *)
(* it, whatever its outcome; only reset selects it again.                  *)
C11_ModeFixedUntilReset ==
    [][last_op' # "api_reset" =>
         /\ quantum_core'.qiskit_available = quantum_core.qiskit_available
         /\ quantum_core'.backend_type = quantum_core.backend_type]_vars

(* simulation mode survives a cycle whose simulation failed *)
C11_Witness ==
    /\ history.last_eval = "sim_failed" /\ history.sim_failed = 2
    /\ quantum_core.qiskit_available
    /\ quantum_core.backend_type = "QISKIT_AER_SIMULATOR"

(* C16: a POST /api/feel whose emotion is not one of the 8 names of        *)
(* EMOTIONS is answered with HTTP 400 and leaves the whole core unchanged. *)
C16_InvalidEmotionRejected ==
    [][(last_op' = "api_feel" /\ request' \notin {Malformed, Absent} /\ ~IsEmotion(request')) =>
         /\ response' = [status |-> 400]
         /\ quantum_core' = quantum_core
         /\ history' = history]_vars

C16_Witness ==
    /\ last_op = "api_feel" /\ request = "JOY" /\ response.status = 400
    /\ M.executions = 2 /\ M.errors = 1
    /\ quantum_core.emotional_vector = OneHot(2)

(* C17: when a /api/feel request ends in the generic failure path (the     *)
(* cycle raises past its fallback, HTTP 500), emotional_vector still has   *)
(* the value it had before the request.                                    *)
C17_FailedFeelLeavesVector ==
    [][(last_op' = "api_feel" /\ request' # Malformed /\ response'.status = 500) =>
         quantum_core'.emotional_vector = quantum_core.emotional_vector]_vars

Abs(x) == IF x < 0 THEN -x ELSE x

(* the vector a normal draw of centre `centre` and deviations `draws` clips to *)
ClippedDraw(centre, draws, n) == [i \in 1..n |-> clip(Add(centre, draws[i]), 0, ONE)]

(* C12 as stated: for every label and every intensity emotion_to_params    *)
(* returns a vector of length n_cells with every element in [0,1].         *)
C12_ParamsInUnitInterval ==
    cli.encoded =>
        /\ Len(cli.params) = cli.n_cells
        /\ \A i \in 1..Len(cli.params) : Between(0, cli.params[i], ONE)

(* C12: for every label and every intensity that is a number (not NaN),    *)
(* emotion_to_params returns a vector of length n_cells with every element *)
(* in [0,1].                                                               *)
C12_NumericParamsInUnitInterval ==
    (cli.encoded /\ ~IsNaN(cli.args.intensity)) =>
        /\ Len(cli.params) = cli.n_cells
        /\ \A i \in 1..Len(cli.params) : Between(0, cli.params[i], ONE)

C12_Witness ==
    /\ cli.op = "emotion_to_params" /\ cli.n_cells = 3
    /\ cli.args.emotion = "tristeza" /\ cli.args.intensity = -500
    /\ cli.draws = <<-200, 0, 100>>
    /\ cli.params = <<0, 0, 50>>

(* C13: an unknown label raises no error and is encoded exactly as base    *)
(* value 0.5 would be (centre 0.5 * intensity); a known label is looked up *)
(* ignoring letter case.                                                   *)
C13_UnknownIsNeutralKnownIgnoresCase ==
    cli.encoded =>
        LET base == CASE cli.args.emotion \in {"alegria", "ALEGRIA", "Alegria"} -> 900
                      [] cli.args.emotion = "tristeza" -> 100
                      [] cli.args.emotion \in {"joy", ""} -> 500
        IN  cli.params = ClippedDraw(Mul(base, cli.args.intensity), cli.draws, cli.n_cells)

C13_Witness ==
    /\ cli.op = "emotion_to_params" /\ cli.n_cells = 2
    /\ cli.args.emotion = "ALEGRIA" /\ cli.args.intensity = ONE
    /\ cli.draws = <<-200, 100>>
    /\ cli.params = <<700, ONE>>

(* C14 as stated: "joy" at intensity 1.0 with 4 cells uses base 0.9: the   *)
(* result has length 4, each entry is a draw centred at 0.9 clipped to     *)
(* [0,1], within 0.15 of 0.9 when the draw is within 3 standard deviations.*)
C14_JoyUsesBasePointNine ==
    (cli.encoded /\ cli.args.emotion = "joy" /\ cli.args.intensity = ONE /\ cli.n_cells = 4) =>
        /\ Len(cli.params) = 4
        /\ cli.params = ClippedDraw(900, cli.draws, 4)
        /\ \A i \in 1..4 : Abs(cli.draws[i]) <= 150 => Abs(cli.params[i] - 900) <= 150

(* C14: at intensity 1.0 with 4 cells the label "alegria" uses base 0.9    *)
(* and the label "joy", which the table does not hold, the neutral 0.5:    *)
(* the result has length 4, each entry is a draw centred at the base and   *)
(* clipped to [0,1], within 0.15 of the base when the draw is within 3     *)
(* standard deviations.                                                    *)
C14_AlegriaUsesBasePointNine ==
    (cli.encoded /\ cli.args.emotion \in {"alegria", "joy"} /\ cli.args.intensity = ONE
       /\ cli.n_cells = 4) =>
        LET base == IF cli.args.emotion = "alegria" THEN 900 ELSE 500
        IN  /\ Len(cli.params) = 4
            /\ cli.params = ClippedDraw(base, cli.draws, 4)
            /\ \A i \in 1..4 : Abs(cli.draws[i]) <= 150 => Abs(cli.params[i] - base) <= 150
            /\ \A i \in 1..4 : Between(0, cli.params[i], ONE)

C14_Witness ==
    /\ cli.op = "emotion_to_params" /\ cli.n_cells = 4
    /\ cli.args.emotion = "alegria" /\ cli.args.intensity = ONE
    /\ cli.draws = <<-200, 0, 100, 100>>
    /\ cli.params = <<700, 900, ONE, ONE>>

(* C15: the script rejects an intensity outside [0,1], a shot count below  *)
(* 1 and an emotion label that is not recognised (case-insensitively):     *)
(* exit status 1, no circuit constructed, emotion_to_params and            *)
(* execute_circuit not called; every other combination passes validation.  *)
C15_InvalidArgsRejected ==
    cli.op = "main" =>
        LET invalid == \/ ~Between(0, cli.args.intensity, ONE)
                       \/ cli.args.shots < 1
                       \/ /\ cli.args.emotion # None
                          /\ cli.args.emotion \notin {"alegria", "ALEGRIA"}
        IN  IF invalid
            THEN cli.exit = 1 /\ ~cli.constructed /\ ~cli.encoded /\ ~cli.executed
            ELSE cli.constructed

(* the keys of a result and of its metrics entry *)
Keys(result) ==
    DOMAIN result \cup (IF "metrics" \in DOMAIN result THEN DOMAIN result.metrics ELSE {})

FeelReturned == cli.op = "feel_emotion" /\ cli.result # NoResult

FeelAnswered == last_op = "api_feel" /\ response.status = 200

(* what C18 asks of a result: the four statistics, the echo, the snapshot *)
Complete(result, emotion, intensity) ==
    /\ "fidelity" \in Keys(result)
    /\ {"quantum_intensity", "phase_coherence", "entanglement_measure"} \subseteq Keys(result)
    /\ "emotion" \in DOMAIN result /\ result.emotion = emotion
    /\ "intensity" \in DOMAIN result /\ result.intensity = intensity
    /\ {"executions", "errors", "avg_intensity", "success_rate"} \subseteq Keys(result)

BothDone == \A t \in Threads : threads[t].pc = "done"

Overlapped == \E t \in Threads : threads[t].overlapped

RaisedCount == Cardinality({t \in Threads : threads[t].raised})

(* C19: nothing protects the aggregator from concurrent requests.  Two     *)
(* cycles that run one after the other leave executions increased by 2 and *)
(* errors by the number of cycles that raised; two cycles interleaved at   *)
(* the reads and writes of the counters can both complete with other       *)
(* counters than these, never with more.                                   *)
C19_SerialCyclesCountBoth ==
    BothDone =>
        /\ M.executions \in 1..2
        /\ M.errors <= RaisedCount
        /\ ~Overlapped => (M.executions = 2 /\ M.errors = RaisedCount)

(* both cycles have completed and one increment of executions is lost *)
C19_Witness ==
    /\ BothDone /\ Overlapped
    /\ M.executions = 1
    /\ RaisedCount = 0

(* C20: errors <= executions in every snapshot that a concurrent request   *)
(* takes with get_metrics while a cycle is in progress, the exception path *)
(* included.                                                               *)
C20_SnapshotErrorsAtMostExecutions ==
    last_op = "metrics" => response.body.errors <= response.body.executions

(* C23: a metrics snapshot (get_metrics, GET /metrics) changes nothing of  *)
(* the core: counters, vector, state, session and mode stay as they were   *)
(* and the snapshot is the one a second query would return.                *)
C23_SnapshotChangesNothing ==
    [][last_op' = "metrics" =>
         /\ quantum_core' = quantum_core
         /\ response'.body = get_metrics(quantum_core)
         /\ get_metrics(quantum_core') = response'.body]_vars

C23_Witness ==
    /\ last_op = "metrics"
    /\ M.executions = 2 /\ M.errors = 1
    /\ response.body = get_metrics(quantum_core)
    /\ quantum_core.emotional_vector = OneHot(2)

(* C25: every POST /api/feel with a valid emotion that is answered 200     *)
(* returns a state whose strictly largest entry is at the index of that    *)
(* emotion, in either mode and whatever the success flag.                  *)
C25_SelectedEmotionDominates ==
    (last_op = "api_feel" /\ response.status = 200) =>
        LET idx == IndexOf(response.emotion)
        IN  \A i \in Idx \ {idx} : response.state.w[idx] > response.state.w[i]

(* the states update_emotional_state can normalise the vector to *)
Normalizations(vector) ==
    {Normalize([i \in Idx |-> vector[i] + noise[i] \div NOISE_DIVISOR]) : noise \in NoiseVectors}

CycleSucceeded ==
    /\ history'.cycles = history.cycles + 1
    /\ history'.last_return = "True"

(* C26: a cycle never modifies emotional_vector: construction, reset and   *)
(* /api/feel alone write it.  So emotion_state after a successful cycle is *)
(* the normalization of emotional_vector plus that cycle's noise, with no  *)
(* noise of earlier cycles in it (where the vector and the noise are all 0 *)
(* there is nothing to normalise and the state is the Dirichlet draw).     *)
C26_StateFromVectorAlone ==
    [][/\ last_op' \notin {"api_reset", "api_feel"} =>
            quantum_core'.emotional_vector = quantum_core.emotional_vector
       /\ CycleSucceeded =>
            \/ /\ quantum_core'.emotional_vector # Zeros
               /\ quantum_core'.emotion_state \in Normalizations(quantum_core'.emotional_vector)
            \/ /\ quantum_core'.emotional_vector = Zeros
               /\ quantum_core'.emotion_state \in
                    (Normalizations(Zeros) \ {Normalize(Zeros)}) \cup DirichletDraws]_vars

C26_Witness ==
    /\ last_op = "api_metrics" /\ history.cycles = 2 /\ history.last_return = "True"
    /\ M.executions = 2 /\ M.errors = 0
    /\ quantum_core.emotional_vector = [i \in Idx |-> IF i = 1 THEN 490 ELSE 0]
    /\ quantum_core.emotion_state = Normalize([i \in Idx |-> IF i = 1 THEN 539 ELSE 49])

(* C27: after construction or reset backend_type is QISKIT_AER_SIMULATOR   *)
(* exactly when qiskit_available is true and CLASSICAL_QUANTUM_SIMULATION  *)
(* exactly when it is false, also when the backend is obtained but the     *)
(* circuit cannot be built.                                                *)
C27_BackendTypeMatchesMode ==
    last_op \in {"init", "api_reset"} =>
        /\ quantum_core.backend_type = "QISKIT_AER_SIMULATOR" <=> quantum_core.qiskit_available
        /\ quantum_core.backend_type = "CLASSICAL_QUANTUM_SIMULATION" <=> ~quantum_core.qiskit_available

(* cell of a qubit *)
CellOf(self, qubit) == qubit \div self.qubits_per_cell

GatesNamed(names) ==
    {aura.gates[g] : g \in {h \in 1..Len(aura.gates) : aura.gates[h].name \in names}}

(* C21: for every n_cells >= 1 and qubits_per_cell >= 1 each gate of       *)
(* _build_intra_cell_connections (controlled rotation, controlled phase)   *)
(* acts on two qubits of one cell.                                         *)
C21_IntraCellGatesStayInCell ==
    aura.op = "build_circuit" =>
        \A gate \in GatesNamed({"cry", "cz"}) :
            CellOf(aura.self, gate.qubits[1]) = CellOf(aura.self, gate.qubits[2])

(* C22: for every n_cells >= 1 _build_inter_cell_connections adds exactly  *)
(* one swap per cell c, between the first qubit of c and the first qubit   *)
(* of cell (c+1) mod n_cells, the two qubits of each swap differ, and the  *)
(* construction succeeds.                                                  *)
C22_RingOfSwaps ==
    aura.op = "build_circuit" =>
        LET n == aura.self.n_cells
            q == aura.self.qubits_per_cell
            swaps == SelectSeq(aura.gates, LAMBDA g : g.name = "swap")
        IN  /\ Len(swaps) = n
            /\ \A c \in 0..(n - 1) :
                 swaps[c + 1].qubits = <<c * q, ((c + 1) % n) * q>>
            /\ \A c \in 1..n : swaps[c].qubits[1] # swaps[c].qubits[2]
            /\ ~aura.raised

(* C24: execute_circuit with a parameter vector whose length is not        *)
(* n_cells raises before a circuit is built or run and leaves last_result  *)
(* as it was.                                                              *)
C24_WrongLengthChangesNothing ==
    [][(aura'.op = "execute_circuit" /\ aura'.length # aura.self.n_cells) =>
         /\ aura'.raised
         /\ ~aura'.built /\ ~aura'.ran
         /\ aura'.self = aura.self]_vars

(* a call with one parameter too many, after a call that left a result *)
C24_Witness ==
    /\ aura.op = "execute_circuit" /\ aura.self.n_cells = 2 /\ aura.length = 3
    /\ aura.raised
    /\ aura.self.last_result # NoResult
    /\ aura.self.last_result.metrics.fidelity = ONE

(* C28: the indicator shows 'Quantum' exactly when the backend value that  *)
(* /api/metrics returned is QISKIT_AER_SIMULATOR and 'Classic' exactly     *)
(* when it is CLASSICAL_QUANTUM_SIMULATION.                                *)
C28_IndicatorShowsMode ==
    dashboard.indicator # "none" =>
        /\ dashboard.indicator = "Quantum" <=> dashboard.backend = "QISKIT_AER_SIMULATOR"
        /\ dashboard.indicator = "Classic" <=> dashboard.backend = "CLASSICAL_QUANTUM_SIMULATION"

(* C29: updateMetrics never has two /api/metrics requests under way (a     *)
(* call that arrives while one is pending is skipped), and isUpdating is   *)
(* false again once a request has settled and its handlers have run,       *)
(* whether it succeeded, failed on the network or threw while rendering.   *)
C29_OneRequestAtATime ==
    /\ Len(dashboard.requests) <= 1
    /\ dashboard.isUpdating <=> dashboard.requests # <<>>

(* polling has resumed after a response that threw while rendering *)
C29_Witness ==
    /\ dashboard.last_outcome = "threw"
    /\ dashboard.last_call = "started"
    /\ Len(dashboard.requests) = 1 /\ dashboard.requests[1].stage = "fetch"
    /\ M.errors = 1

====
